---- MODULE Spec2Model ----
(***************************************************************************)
(* A model of src/src/tensor.h: the Tensor<T> facade, its CUDA kernels,    *)
(* the broadcast resolver and the Backward autograd nodes.                 *)
(*                                                                         *)
(* Device buffers are sequences of integers (T = int); a Tensor's `data`   *)
(* pointer is the index of its buffer in `bufs`, a Backward<T>* is the     *)
(* index of its node in `nodes` (0 is the null pointer).  Nothing is ever  *)
(* freed by the code (no destructor, no cudaFree, no delete), so both      *)
(* heaps only grow.  All C++ indices are 0-based; sequences are 1-based.   *)
(***************************************************************************)
EXTENDS Integers, Sequences, FiniteSets, TLC

VARIABLES
    tensors,   \* the Tensor objects the client holds, in order of creation
    origin,    \* history: how tensors[k] was produced (operation, operands)
    bufs,      \* device memory: one sequence of elements per cudaMalloc'ed buffer
    nodes,     \* the heap of Backward objects created with `new`
    gradres,   \* outcome of Tensor::gradients(), when that was the call just made
    lastcall,  \* the Backward node and gradient of the call just made, if it was one
    launch,    \* the kernel launch in flight (SpecKernel), or NoLaunch
    pending,   \* threads of the launch that have not run yet
    wlog,      \* writes performed by the threads of the launch
    rlog       \* reads performed by the threads of the launch

vars == <<tensors, origin, bufs, nodes, gradres, lastcall, launch, pending, wlog, rlog>>

-----------------------------------------------------------------------------
(* Bounds of the model *)

\* at most this many Tensor objects are created by the client
MaxTensors == 3
\* at most this many Backward nodes are allocated
MaxNodes == 5
\* at most this many gradients are accumulated in one leaf
MaxGrads == 2
\* threads per block of the 1-D launches (256 in the source, scaled down)
BlockDim == 3
\* threads per block side of the matrix_multiply launch (16 in the source)
MmBlockDim == 2

NULL == 0

-----------------------------------------------------------------------------
(* Arithmetic of the element type *)

Abs(x) == IF x < 0 THEN -x ELSE x

\* C++ integer division truncates toward zero
CDiv(a, b) ==
    IF (a < 0) = (b < 0) THEN Abs(a) \div Abs(b) ELSE -(Abs(a) \div Abs(b))

ApplyOp(op, x, y) ==
    CASE op = "add" -> x + y
      [] op = "subtract" -> x - y
      [] op = "multiply" -> x * y
      [] op = "divide" -> CDiv(x, y)

CeilDiv(a, b) == (a + b - 1) \div b

\* std::accumulate(shape.begin(), shape.end(), 1, std::multiplies), from element i on
RECURSIVE ProductFrom(_, _)
ProductFrom(shape, i) ==
    IF i > Len(shape) THEN 1 ELSE shape[i] * ProductFrom(shape, i + 1)

Product(shape) == ProductFrom(shape, 1)

\* std::inner_product(strides.begin(), strides.end(), indices.begin(), 0), from element i on
RECURSIVE InnerProductFrom(_, _, _)
InnerProductFrom(strides, indices, i) ==
    IF i > Len(strides) THEN 0
    ELSE strides[i] * indices[i] + InnerProductFrom(strides, indices, i + 1)

InnerProduct(strides, indices) == InnerProductFrom(strides, indices, 1)

-----------------------------------------------------------------------------
(* Tensor construction *)

\* the constructor's loop with the two statements of its body exchanged
RECURSIVE StridesLoopScaledFirst(_, _, _, _)
StridesLoopScaledFirst(shape, i, stride, strides) ==
    IF i < 1 THEN strides
    ELSE StridesLoopScaledFirst(shape, i - 1, stride * shape[i],
                                [strides EXCEPT ![i] = stride * shape[i]])

\* the loop of the constructor: for (i = rank-1; i >= 0; --i)
RECURSIVE StridesLoop(_, _, _, _)
StridesLoop(shape, i, stride, strides) ==
    IF i < 1 THEN strides
    ELSE StridesLoop(shape, i - 1, stride * shape[i], [strides EXCEPT ![i] = stride])

DenseStrides(shape) ==
    StridesLoop(shape, Len(shape), 1, [i \in 1..Len(shape) |-> 0])

\* Tensor(const std::vector<int>& shape); `data` is the freshly allocated buffer
NewTensor(shape, data) ==
    [shape |-> shape,
     rank |-> Len(shape),
     strides |-> DenseStrides(shape),
     n_elements |-> Product(shape),
     data |-> data,
     backward |-> NULL]

\* transpose reading the second dimension from the copy it has just written
TransposeOfSequential(t, dim1, dim2) ==
    LET shape1 == [t.shape EXCEPT ![dim1 + 1] = t.shape[dim2 + 1]]
        strides1 == [t.strides EXCEPT ![dim1 + 1] = t.strides[dim2 + 1]]
    IN  [t EXCEPT !.shape = [shape1 EXCEPT ![dim2 + 1] = shape1[dim1 + 1]],
                  !.strides = [strides1 EXCEPT ![dim2 + 1] = strides1[dim1 + 1]]]

\* Tensor::transpose(dim1, dim2), dims 0-based
TransposeOf(t, dim1, dim2) ==
    [t EXCEPT !.shape = [t.shape EXCEPT ![dim1 + 1] = t.shape[dim2 + 1],
                                        ![dim2 + 1] = t.shape[dim1 + 1]],
              !.strides = [t.strides EXCEPT ![dim1 + 1] = t.strides[dim2 + 1],
                                            ![dim2 + 1] = t.strides[dim1 + 1]]]

\* a read of device memory; outside the buffer the value is whatever lies there
ReadBuf(mem, buf, off, garbage) ==
    IF off >= 0 /\ off < Len(mem[buf]) THEN mem[buf][off + 1] ELSE garbage

\* Tensor::operator[](indices)
At(mem, t, indices) ==
    mem[t.data][InnerProduct(t.strides, indices) + 1]

-----------------------------------------------------------------------------
(* Kernels.  A launch is a record of the kernel's arguments; a thread is    *)
(* identified by its number in the grid.  The effect of one thread is the   *)
(* sequence of its writes and the set of its reads.                         *)

NoLaunch == [kernel |-> "none"]

NoEffect == [writes |-> <<>>, reads |-> {}]

Cell(buf, off) == [buf |-> buf, off |-> off]

\* get_indices: decode `index` against the output strides, dimension 0 first
RECURSIVE GetIndicesLoop(_, _, _, _, _, _, _)
GetIndicesLoop(i, index_remainder, strides1, strides2, strides, ind0, ind1) ==
    IF i > Len(strides) THEN <<ind0, ind1>>
    ELSE LET dim == index_remainder \div strides[i]
         IN  GetIndicesLoop(i + 1, index_remainder - dim * strides[i],
                            strides1, strides2, strides,
                            ind0 + dim * strides1[i], ind1 + dim * strides2[i])

GetIndices(index, strides1, strides2, strides) ==
    GetIndicesLoop(1, index, strides1, strides2, strides, 0, 0)

\* the guard of an elementwise kernel letting the thread one past the end in
InRangeInclusive(index, n) == index <= n

\* the 1-D global index guard of every elementwise kernel: if (index < n)
InRange(index, n) == index < n

\* add / subtract / multiply / divide: one thread
BinaryThread(L, index, mem, garbage) ==
    IF InRange(index, L.n)
    THEN LET ind == GetIndices(index, L.s1, L.s2, L.s)
             x == ReadBuf(mem, L.in1, ind[1], garbage)
             y == ReadBuf(mem, L.in2, ind[2], garbage)
         IN  [writes |-> <<[buf |-> L.out, off |-> index,
                            val |-> ApplyOp(L.kernel, x, y)]>>,
              reads |-> {Cell(L.in1, ind[1]), Cell(L.in2, ind[2])}]
    ELSE NoEffect

UnaryValue(kernel, x) ==
    CASE kernel = "negate" -> -x
      [] kernel = "relu" -> IF x > 0 THEN x ELSE 0
      [] kernel = "relu_d" -> IF x > 0 THEN 1 ELSE 0

\* negate / relu / relu_d: one thread
UnaryThread(L, i, mem, garbage) ==
    IF InRange(i, L.n)
    THEN [writes |-> <<[buf |-> L.out, off |-> i,
                        val |-> UnaryValue(L.kernel, ReadBuf(mem, L.in1, i, garbage))]>>,
          reads |-> {Cell(L.in1, i)}]
    ELSE NoEffect

\* the dot product loop of matrix_multiply
RECURSIVE DotLoop(_, _, _, _, _, _, _)
DotLoop(L, i, tensor1_start, tensor2_start, mem, garbage, product) ==
    IF i >= L.shared_dim THEN product
    ELSE DotLoop(L, i + 1, tensor1_start, tensor2_start, mem, garbage,
                 product
                 + ReadBuf(mem, L.in1, tensor1_start + i * L.s1[L.rank], garbage)
                   * ReadBuf(mem, L.in2, tensor2_start + i * L.s2[L.rank - 1], garbage))

MmStart1(L, row, z) == z * L.height * L.shared_dim + row * L.s1[L.rank - 1]
MmStart2(L, column, z) == z * L.width * L.shared_dim + column * L.s2[L.rank]

\* matrix_multiply: the thread (row, column, blockIdx.z)
MmThread(L, row, column, z, mem, garbage) ==
    IF row < L.height /\ column < L.width
    THEN LET tensor1_start == MmStart1(L, row, z)
             tensor2_start == MmStart2(L, column, z)
         IN  [writes |-> <<[buf |-> L.out,
                            off |-> z * L.height * L.width + row * L.width + column,
                            val |-> DotLoop(L, 0, tensor1_start, tensor2_start,
                                            mem, garbage, 0)]>>,
              reads |-> {Cell(L.in1, tensor1_start + i * L.s1[L.rank]) :
                              i \in 0..(L.shared_dim - 1)}
                        \cup {Cell(L.in2, tensor2_start + i * L.s2[L.rank - 1]) :
                              i \in 0..(L.shared_dim - 1)}]
    ELSE NoEffect

BinaryKernels == {"add", "subtract", "multiply", "divide"}
UnaryKernels == {"negate", "relu", "relu_d"}

\* number of threads of the grid: <<<gridx*gridy*gridz blocks>>> times the block
NThreads(L) == L.gridx * L.gridy * L.gridz

ThreadEffect(L, tid, mem, garbage) ==
    CASE L.kernel \in BinaryKernels -> BinaryThread(L, tid, mem, garbage)
      [] L.kernel \in UnaryKernels -> UnaryThread(L, tid, mem, garbage)
      [] L.kernel = "matrix_multiply" ->
            MmThread(L, tid % L.gridx, (tid \div L.gridx) % L.gridy,
                     tid \div (L.gridx * L.gridy), mem, garbage)

\* the writes of one thread, from the i-th on, applied to memory; a write
\* outside its buffer is not applied
RECURSIVE ApplyWritesFrom(_, _, _)
ApplyWritesFrom(mem, writes, i) ==
    IF i > Len(writes) THEN mem
    ELSE LET w == writes[i]
             m == IF w.off >= 0 /\ w.off < Len(mem[w.buf])
                  THEN [mem EXCEPT ![w.buf][w.off + 1] = w.val]
                  ELSE mem
         IN  ApplyWritesFrom(m, writes, i + 1)

ApplyWrites(mem, writes) == ApplyWritesFrom(mem, writes, 1)

\* the whole launch, its threads taken in grid order: memory once the threads
\* of the grid before thread tid have run.  Threads allocate and free nothing;
\* testing that first makes TLC evaluate `before` ahead of the thread's step
\* instead of nesting the steps of the whole launch inside one another.
RECURSIVE RunThreads(_, _, _, _)
RunThreads(L, tid, mem, garbage) ==
    IF tid <= 0 THEN mem
    ELSE LET before == RunThreads(L, tid - 1, mem, garbage)
         IN  IF Len(before) = Len(mem)
             THEN ApplyWrites(before, ThreadEffect(L, tid - 1, before, garbage).writes)
             ELSE before

-----------------------------------------------------------------------------
(* Host side of the operators: allocation of the result and the launch *)

\* the values an uninitialised or out-of-bounds element may hold
Garbage == {0, 13}

\* cudaMalloc of n elements: the contents are not initialised
Alloc(mem, n, garbage) == Append(mem, [i \in 1..n |-> garbage])

MkLaunch(kernel, n, rank, s1, s2, s, in1, in2, out, height, width, shared_dim, gridx, gridy, gridz) ==
    [kernel |-> kernel, n |-> n, rank |-> rank, s1 |-> s1, s2 |-> s2, s |-> s,
     in1 |-> in1, in2 |-> in2, out |-> out,
     height |-> height, width |-> width, shared_dim |-> shared_dim,
     gridx |-> gridx, gridy |-> gridy, gridz |-> gridz]

\* prepare_broadcast without the forcing of the smaller operand's stride to 0
PrepareBroadcastKeepStrides(tensor1, tensor2) ==
    LET R == 1..tensor1.rank
    IN  [shape |-> [i \in R |-> IF tensor1.shape[i] >= tensor2.shape[i]
                                THEN tensor1.shape[i] ELSE tensor2.shape[i]],
         s1 |-> tensor1.strides,
         s2 |-> tensor2.strides]

\* prepare_broadcast: the output shape and the two forced-stride vectors
PrepareBroadcast(tensor1, tensor2) ==
    LET R == 1..tensor1.rank
    IN  [shape |-> [i \in R |-> IF tensor1.shape[i] >= tensor2.shape[i]
                                THEN tensor1.shape[i] ELSE tensor2.shape[i]],
         s1 |-> [i \in R |-> IF tensor1.shape[i] >= tensor2.shape[i]
                             THEN tensor1.strides[i] ELSE 0],
         s2 |-> [i \in R |-> IF tensor1.shape[i] <= tensor2.shape[i]
                             THEN tensor2.strides[i] ELSE 0]]

\* operator+ - * /: the result tensor, the memory after cudaMalloc, the launch
BinaryOp(kernel, tensor1, tensor2, mem, garbage) ==
    LET pb == PrepareBroadcast(tensor1, tensor2)
        out == NewTensor(pb.shape, Len(mem) + 1)
    IN  [t |-> out,
         mem |-> Alloc(mem, out.n_elements, garbage),
         L |-> MkLaunch(kernel, out.n_elements, out.rank, pb.s1, pb.s2, out.strides,
                        tensor1.data, tensor2.data, out.data, 0, 0, 0,
                        CeilDiv(out.n_elements, BlockDim) * BlockDim, 1, 1)]

\* operator-() / relu / relu_d
UnaryOp(kernel, input, mem, garbage) ==
    LET out == NewTensor(input.shape, Len(mem) + 1)
    IN  [t |-> out,
         mem |-> Alloc(mem, out.n_elements, garbage),
         L |-> MkLaunch(kernel, out.n_elements, out.rank, <<>>, <<>>, <<>>,
                        input.data, input.data, out.data, 0, 0, 0,
                        CeilDiv(out.n_elements, BlockDim) * BlockDim, 1, 1)]

\* the kernel and grid that the friend sum launches: relu_d<T><<<1, 1>>>
SumLaunch(input, out) ==
    MkLaunch("relu_d", input.n_elements, out.rank, <<>>, <<>>, <<>>,
             input.data, input.data, out.data, 0, 0, 0, 1, 1, 1)

\* sum (friend of Tensor)
SumOp(input, mem, garbage) ==
    LET out == NewTensor([i \in 1..input.rank |-> 1], Len(mem) + 1)
    IN  [t |-> out,
         mem |-> Alloc(mem, out.n_elements, garbage),
         L |-> SumLaunch(input, out)]

\* mm (friend of Tensor)
MmOp(tensor1, tensor2, mem, garbage) ==
    LET shape == [tensor1.shape EXCEPT ![tensor1.rank] = tensor2.shape[tensor2.rank]]
        out == NewTensor(shape, Len(mem) + 1)
        height == out.shape[out.rank - 1]
        width == out.shape[out.rank]
        shared_dim == tensor1.shape[tensor1.rank]
        batch_size == out.n_elements \div (height * width)
    IN  [t |-> out,
         mem |-> Alloc(mem, out.n_elements, garbage),
         L |-> MkLaunch("matrix_multiply", out.n_elements, out.rank,
                        tensor1.strides, tensor2.strides, out.strides,
                        tensor1.data, tensor2.data, out.data,
                        height, width, shared_dim,
                        CeilDiv(height, MmBlockDim) * MmBlockDim,
                        CeilDiv(width, MmBlockDim) * MmBlockDim, batch_size)]

\* the result of an operator once its kernel has run to completion
Completed(r, garbage) == [t |-> r.t, mem |-> RunThreads(r.L, NThreads(r.L), r.mem, garbage)]

\* a MultiplyBackward node that keeps each operand next to its own parent
MultiplyNodeOwnOperand(tensor1, tensor2) ==
    [kind |-> "multiply", tensors |-> <<tensor2, tensor1>>,
     backwards |-> <<tensor1.backward, tensor2.backward>>]

\* new MultiplyBackward{ {tensor1, tensor2}, {tensor1.backward, tensor2.backward} }
MultiplyNode(tensor1, tensor2) ==
    [kind |-> "multiply", tensors |-> <<tensor1, tensor2>>,
     backwards |-> <<tensor1.backward, tensor2.backward>>]

\* new AccumulateGradients{}
AccumulateNode == [kind |-> "accumulate", tensors |-> <<>>, backwards |-> <<>>]

-----------------------------------------------------------------------------
(* Autograd *)

\* operator*: the kernel run to completion, then the new MultiplyBackward node
MultiplyRun(tensor1, tensor2, H, garbage) ==
    LET r == Completed(BinaryOp("multiply", tensor1, tensor2, H.mem, garbage), garbage)
    IN  [t |-> [r.t EXCEPT !.backward = Len(H.nodes) + 1],
         mem |-> r.mem,
         nodes |-> Append(H.nodes, MultiplyNode(tensor1, tensor2))]

\* whether parent i of a MultiplyBackward node is forwarded to: if (backwards[i])
Forwards(node, i) == node.backwards[i] # NULL

\* Backward::operator()(gradients) on node n, by the dynamic type of the node
RECURSIVE InvokeNode(_, _, _, _)
InvokeNode(n, gradients, H, garbage) ==
    LET node == H.nodes[n]
    IN  IF node.kind = "accumulate"
        THEN [H EXCEPT !.nodes[n].tensors = Append(@, gradients)]
        ELSE LET H1 == IF Forwards(node, 1)
                       THEN LET p == MultiplyRun(gradients, node.tensors[2], H, garbage)
                            IN  InvokeNode(node.backwards[1], p.t,
                                           [mem |-> p.mem, nodes |-> p.nodes], garbage)
                       ELSE H
                 H2 == IF Forwards(node, 2)
                       THEN LET p == MultiplyRun(gradients, node.tensors[1], H1, garbage)
                            IN  InvokeNode(node.backwards[2], p.t,
                                           [mem |-> p.mem, nodes |-> p.nodes], garbage)
                       ELSE H1
             IN  H2

\* requires_gradients emptying the node the tensor already has, if it has one
RequiresGradientsReset(t, heap) ==
    IF t.backward # NULL
    THEN [t |-> t, nodes |-> [heap EXCEPT ![t.backward].tensors = <<>>]]
    ELSE [t |-> [t EXCEPT !.backward = Len(heap) + 1],
          nodes |-> Append(heap, AccumulateNode)]

\* Tensor::requires_gradients: backward = new AccumulateGradients<T>{}
RequiresGradientsOn(t, heap) ==
    [t |-> [t EXCEPT !.backward = Len(heap) + 1],
     nodes |-> Append(heap, AccumulateNode)]

\* a default-constructed Tensor
DefaultTensor ==
    [shape |-> <<>>, rank |-> 0, strides |-> <<>>, n_elements |-> 0,
     data |-> NULL, backward |-> NULL]

NoGradients == [status |-> "none", of |-> 0, t |-> DefaultTensor]
NoCall == [node |-> NULL, g |-> 0, of |-> 0]

\* the outcomes of Tensor::gradients() on tensor t: backward->tensors[0].
\* Dereferencing a null `backward`, or indexing an empty vector, is undefined:
\* the call may crash or return whatever it finds.
GradientsOutcomes(t, heap) ==
    IF t.backward # NULL /\ heap[t.backward].tensors # <<>>
    THEN {[status |-> "returned", t |-> heap[t.backward].tensors[1]]}
    ELSE {[status |-> "crashed", t |-> DefaultTensor],
          [status |-> "returned", t |-> DefaultTensor]}

-----------------------------------------------------------------------------
(* The client's operations on the pool of tensors *)

Origin(op, a, b, dim1, dim2) ==
    [op |-> op, a |-> a, b |-> b, dim1 |-> dim1, dim2 |-> dim2]

Idle == /\ launch = NoLaunch
        /\ UNCHANGED <<launch, pending, wlog, rlog>>

CanCreate == Len(tensors) < MaxTensors

\* the step is neither a call of gradients() nor of a Backward node
NoResult == gradres' = NoGradients /\ lastcall' = NoCall

SameRank(a, b) == tensors[a].rank = tensors[b].rank

\* precondition of mm: rank >= 2, equal batch prefix, matching shared dimension
MmDefined(tensor1, tensor2) ==
    /\ tensor1.rank >= 2
    /\ tensor1.rank = tensor2.rank
    /\ \A i \in 1..(tensor1.rank - 2) : tensor1.shape[i] = tensor2.shape[i]
    /\ tensor1.shape[tensor1.rank] = tensor2.shape[tensor2.rank - 1]

\* division by zero is left to the element type and is not modelled
DivDefined(tensor2) == \A i \in 1..Len(bufs[tensor2.data]) : bufs[tensor2.data][i] # 0

Push(t, o) ==
    /\ tensors' = Append(tensors, t)
    /\ origin' = Append(origin, o)

\* Tensor<T> t{ shape }
ConstructIn(shapes) ==
    /\ Idle /\ CanCreate
    /\ \E shape \in shapes, garbage \in Garbage :
          /\ Push(NewTensor(shape, Len(bufs) + 1), Origin("construct", 0, 0, 0, 0))
          /\ bufs' = Alloc(bufs, Product(shape), garbage)
    /\ UNCHANGED nodes
    /\ NoResult

\* Tensor<T>::from_vector(vector, shape)
FromVectorIn(inputs) ==
    /\ Idle /\ CanCreate
    /\ \E in \in inputs :
          /\ Len(in.values) = Product(in.shape)
          /\ Push(NewTensor(in.shape, Len(bufs) + 1), Origin("from_vector", 0, 0, 0, 0))
          /\ bufs' = Append(bufs, in.values)
    /\ UNCHANGED nodes
    /\ NoResult

\* Tensor<T>::from_scalar(scalar, shape)
FromScalarIn(scalars, shapes) ==
    /\ Idle /\ CanCreate
    /\ \E scalar \in scalars, shape \in shapes :
          /\ Push(NewTensor(shape, Len(bufs) + 1), Origin("from_scalar", 0, 0, 0, 0))
          /\ bufs' = Append(bufs, [i \in 1..Product(shape) |-> scalar])
    /\ UNCHANGED nodes
    /\ NoResult

\* t.transpose(dim1, dim2)
Transpose ==
    /\ Idle /\ CanCreate
    /\ \E a \in 1..Len(tensors) :
       \E dim1, dim2 \in 0..(tensors[a].rank - 1) :
          Push(TransposeOf(tensors[a], dim1, dim2), Origin("transpose", a, 0, dim1, dim2))
    /\ UNCHANGED <<bufs, nodes>>
    /\ NoResult

\* an operator whose result carries no autograd node
Plain(r, o) ==
    /\ Push(r.t, o)
    /\ bufs' = r.mem
    /\ UNCHANGED nodes
    /\ NoResult

Binary(kernel) ==
    /\ Idle /\ CanCreate
    /\ \E a, b \in 1..Len(tensors), garbage \in Garbage :
          /\ SameRank(a, b)
          /\ kernel = "divide" => DivDefined(tensors[b])
          /\ Plain(Completed(BinaryOp(kernel, tensors[a], tensors[b], bufs, garbage),
                             garbage),
                   Origin(kernel, a, b, 0, 0))

\* operator+
Add == Binary("add")
\* operator- (binary)
Sub == Binary("subtract")
\* operator/
Div == Binary("divide")

\* operator*
Mul ==
    /\ Idle /\ CanCreate
    /\ Len(nodes) < MaxNodes
    /\ \E a, b \in 1..Len(tensors), garbage \in Garbage :
          /\ SameRank(a, b)
          /\ LET r == MultiplyRun(tensors[a], tensors[b],
                                  [mem |-> bufs, nodes |-> nodes], garbage)
             IN  /\ Push(r.t, Origin("multiply", a, b, 0, 0))
                 /\ bufs' = r.mem
                 /\ nodes' = r.nodes
    /\ NoResult

Unary(kernel) ==
    /\ Idle /\ CanCreate
    /\ \E a \in 1..Len(tensors), garbage \in Garbage :
          Plain(Completed(UnaryOp(kernel, tensors[a], bufs, garbage), garbage),
                Origin(kernel, a, 0, 0, 0))

\* operator- (unary)
Neg == Unary("negate")
Relu == Unary("relu")
ReluD == Unary("relu_d")

\* sum(t)
Sum ==
    /\ Idle /\ CanCreate
    /\ \E a \in 1..Len(tensors), garbage \in Garbage :
          Plain(Completed(SumOp(tensors[a], bufs, garbage), garbage),
                Origin("sum", a, 0, 0, 0))

\* mm(t1, t2)
Mm ==
    /\ Idle /\ CanCreate
    /\ \E a, b \in 1..Len(tensors), garbage \in Garbage :
          /\ MmDefined(tensors[a], tensors[b])
          /\ Plain(Completed(MmOp(tensors[a], tensors[b], bufs, garbage), garbage),
                   Origin("mm", a, b, 0, 0))

\* t.requires_gradients()
RequiresGradients ==
    /\ Idle
    /\ Len(nodes) < MaxNodes
    /\ \E a \in 1..Len(tensors) :
          LET r == RequiresGradientsOn(tensors[a], nodes)
          IN  /\ nodes' = r.nodes
              /\ tensors' = [tensors EXCEPT ![a] = r.t]
    /\ UNCHANGED <<origin, bufs>>
    /\ NoResult

\* (*t.backward)(g): the client starts a backward pass at the node of a, the
\* result of an operator
Invoke ==
    /\ Idle
    /\ \E a, g \in 1..Len(tensors), garbage \in Garbage :
          /\ tensors[a].backward # NULL
          /\ nodes[tensors[a].backward].kind = "multiply"
          /\ SameRank(a, g)
          /\ LET H == InvokeNode(tensors[a].backward, tensors[g],
                                 [mem |-> bufs, nodes |-> nodes], garbage)
             IN  /\ Len(H.nodes) <= MaxNodes
                 /\ \A m \in 1..Len(nodes) : Len(H.nodes[m].tensors) <= MaxGrads
                 /\ bufs' = H.mem
                 /\ nodes' = H.nodes
                 /\ lastcall' = [node |-> tensors[a].backward, g |-> g, of |-> a]
    /\ gradres' = NoGradients
    /\ UNCHANGED <<tensors, origin>>

\* t.gradients()
Gradients ==
    /\ Idle
    /\ \E a \in 1..Len(tensors) :
       \E o \in GradientsOutcomes(tensors[a], nodes) :
          gradres' = [status |-> o.status, of |-> a, t |-> o.t]
    /\ lastcall' = NoCall
    /\ UNCHANGED <<tensors, origin, bufs, nodes>>

-----------------------------------------------------------------------------
(* The tensor algebra: construction, views and arithmetic *)

Input(shape, values) == [shape |-> shape, values |-> values]

Inputs ==
    {Input(<<2, 2>>, <<1, 2, 3, 4>>),
     Input(<<2, 2>>, <<5, 6, 7, 8>>),
     Input(<<2, 3>>, <<-1, 0, 2, -3, 4, -5>>),
     Input(<<1, 3>>, <<7, 8, 9>>),
     Input(<<4>>, <<-1, 0, 2, -3>>),
     Input(<<2, 2, 2>>, <<1, 2, 3, 4, 5, 6, 7, 8>>)}

ConstructShapes == {<<2>>}
ScalarShapes == {<<3, 2>>}
Scalars == {2}

Construct == ConstructIn(ConstructShapes)
FromVector == FromVectorIn(Inputs)
FromScalar == FromScalarIn(Scalars, ScalarShapes)

Init ==
    /\ tensors = <<>>
    /\ origin = <<>>
    /\ bufs = <<>>
    /\ nodes = <<>>
    /\ gradres = NoGradients
    /\ lastcall = NoCall
    /\ launch = NoLaunch
    /\ pending = {}
    /\ wlog = {}
    /\ rlog = {}

Next ==
    \/ Construct
    \/ FromVector
    \/ FromScalar
    \/ Transpose
    \/ Add
    \/ Sub
    \/ Mul
    \/ Div
    \/ Neg
    \/ Relu
    \/ ReluD
    \/ Sum
    \/ Mm

Spec == Init /\ [][Next]_vars

-----------------------------------------------------------------------------
(* Properties of the tensor algebra *)

MaxDim(shape) ==
    IF Len(shape) = 0 THEN 1
    ELSE CHOOSE m \in {shape[i] : i \in 1..Len(shape)} :
            \A i \in 1..Len(shape) : shape[i] <= m

\* every coordinate vector within a shape
Coords(shape) ==
    {c \in [1..Len(shape) -> 0..(MaxDim(shape) - 1)] :
        \A i \in 1..Len(shape) : c[i] < shape[i]}

Max(x, y) == IF x >= y THEN x ELSE y

Created == 1..Len(tensors)

\* whether the contents of tensor k derive from values the client supplied
RECURSIVE HasDefinedContents(_)
HasDefinedContents(k) ==
    /\ origin[k].op # "construct"
    /\ origin[k].a # 0 => HasDefinedContents(origin[k].a)
    /\ origin[k].b # 0 => HasDefinedContents(origin[k].b)

\* the coordinate at which operand t reads when the other operand is u
BroadcastCoord(c, t, u) ==
    [i \in 1..Len(c) |-> IF t.shape[i] >= u.shape[i] THEN c[i] ELSE 0]

\* C1: the result of + - * / has the per-dimension maximum shape and holds, at
\* every coordinate, the operation applied to the two operands' elements, each
\* read at the coordinate itself where that operand is not the smaller one and
\* at 0 where it is.
BroadcastElementwise ==
    \A k \in Created :
        origin[k].op \in BinaryKernels =>
            LET r == tensors[k]
                t1 == tensors[origin[k].a]
                t2 == tensors[origin[k].b]
            IN  /\ r.shape = [i \in 1..t1.rank |-> Max(t1.shape[i], t2.shape[i])]
                /\ \A c \in Coords(r.shape) :
                      At(bufs, r, c) =
                          ApplyOp(origin[k].op,
                                  At(bufs, t1, BroadcastCoord(c, t1, t2)),
                                  At(bufs, t2, BroadcastCoord(c, t2, t1)))

\* a [2,3] tensor combined with a [1,3] tensor: the single row serves both rows
BroadcastRowReused ==
    \E k \in Created :
        /\ origin[k].op \in BinaryKernels
        /\ tensors[origin[k].a].shape = <<2, 3>>
        /\ tensors[origin[k].b].shape = <<1, 3>>
        /\ tensors[k].shape = <<2, 3>>
        /\ At(bufs, tensors[k], <<1, 2>>) =
              ApplyOp(origin[k].op, At(bufs, tensors[origin[k].a], <<1, 2>>),
                      At(bufs, tensors[origin[k].b], <<0, 2>>))

\* coordinate c with its last two entries replaced by (r, k)
Matrix(c, r, k) ==
    [i \in 1..Len(c) |-> IF i = Len(c) - 1 THEN r ELSE IF i = Len(c) THEN k ELSE c[i]]

\* sum over j = 0..k of A[b, r, j] * B[b, j, col], b the batch part of c
RECURSIVE DotSum(_, _, _, _)
DotSum(A, B, c, k) ==
    IF k < 0 THEN 0
    ELSE At(bufs, A, Matrix(c, c[Len(c) - 1], k)) * At(bufs, B, Matrix(c, k, c[Len(c)]))
         + DotSum(A, B, c, k - 1)

\* C2: mm(A, B) has A's shape with the last dimension replaced by B's, and its
\* element (b, r, c) is the sum over k of A[b, r, k] * B[b, k, c], the operands
\* read through their own strides (A, B built from supplied values).
MmIsStridedDotProduct ==
    \A k \in Created :
        origin[k].op = "mm" /\ HasDefinedContents(k) =>
            LET r == tensors[k]
                A == tensors[origin[k].a]
                B == tensors[origin[k].b]
            IN  /\ r.shape = [A.shape EXCEPT ![A.rank] = B.shape[B.rank]]
                /\ \A c \in Coords(r.shape) :
                      At(bufs, r, c) =
                          DotSum(A, B, c, A.shape[A.rank] - 1)

RECURSIVE SumFrom(_, _)
SumFrom(q, i) == IF i > Len(q) THEN 0 ELSE q[i] + SumFrom(q, i + 1)

SeqSum(q) == SumFrom(q, 1)

\* C5: sum(T) has T's rank, shape 1 in every dimension, and its single element
\* is the sum of all elements of T (T built from supplied values).
SumIsTotal ==
    \A k \in Created :
        origin[k].op = "sum" /\ HasDefinedContents(origin[k].a) =>
            LET r == tensors[k]
                T == tensors[origin[k].a]
            IN  /\ r.rank = T.rank
                /\ r.shape = [i \in 1..T.rank |-> 1]
                /\ bufs[r.data] = <<SeqSum(bufs[T.data])>>

\* C6: relu, relu_d and unary minus keep the shape and act on every element,
\* each tensor indexed through its own strides (T built from supplied values).
UnaryElementwise ==
    \A k \in Created :
        origin[k].op \in UnaryKernels /\ HasDefinedContents(origin[k].a) =>
            LET r == tensors[k]
                T == tensors[origin[k].a]
            IN  /\ r.shape = T.shape
                /\ \A c \in Coords(T.shape) :
                      At(bufs, r, c) = UnaryValue(origin[k].op, At(bufs, T, c))

IsView(k) == origin[k].op = "transpose"

\* C7: every tensor has len(shape) = len(strides) = rank and n_elements =
\* product(shape); every tensor that is not a transposed view has dense
\* row-major strides.
ShapeStrideInvariant ==
    \A k \in Created :
        LET t == tensors[k]
        IN  /\ Len(t.shape) = t.rank
            /\ Len(t.strides) = t.rank
            /\ t.n_elements = Product(t.shape)
            /\ ~IsView(k) =>
                  /\ t.rank >= 1 => t.strides[t.rank] = 1
                  /\ \A i \in 1..(t.rank - 1) :
                        t.strides[i] = t.strides[i + 1] * t.shape[i + 1]

\* the result of arithmetic over a view whose strides are not dense
DenseResultOverView ==
    \E k, v \in Created :
        /\ IsView(v)
        /\ tensors[v].strides # DenseStrides(tensors[v].shape)
        /\ origin[k].op \in BinaryKernels \cup UnaryKernels \cup {"mm", "sum"}
        /\ origin[k].a = v
        /\ tensors[k].rank = 2

TwiceTransposed(k) ==
    /\ IsView(k)
    /\ IsView(origin[k].a)
    /\ origin[origin[k].a].dim1 = origin[k].dim1
    /\ origin[origin[k].a].dim2 = origin[k].dim2

TransposeTwiceRestores ==
    \A k \in Created :
        TwiceTransposed(k) =>
            LET T == tensors[origin[origin[k].a].a]
            IN  /\ tensors[k].shape = T.shape
                /\ tensors[k].strides = T.strides
                /\ tensors[k].data = T.data

\* C8: transpose(transpose(T, i, j), i, j) has T's shape and strides and T's
\* buffer, and no step changes the shape, strides, buffer or buffer contents
\* of a tensor that exists.
TransposeTwiceIdentity ==
    [][/\ TransposeTwiceRestores'
       /\ \A u \in Created :
             /\ tensors'[u].shape = tensors[u].shape
             /\ tensors'[u].strides = tensors[u].strides
             /\ tensors'[u].data = tensors[u].data
             /\ bufs'[tensors[u].data] = bufs[tensors[u].data]]_vars

\* a [2,3] tensor transposed to [3,2] and back
TransposedBackAndForth ==
    \E k \in Created :
        /\ TwiceTransposed(k)
        /\ origin[k].dim1 # origin[k].dim2
        /\ tensors[origin[k].a].shape = <<3, 2>>
        /\ tensors[k].shape = <<2, 3>>
        /\ tensors[k].strides = <<3, 1>>

-----------------------------------------------------------------------------
(* The autograd graph: leaves, multiply nodes and backward calls *)

GradInputs ==
    {Input(<<1, 2>>, <<2, 3>>),
     Input(<<2, 1>>, <<-1, 4>>)}

GradFromVector == FromVectorIn(GradInputs)

\* leaves, products and backward calls
NextGrad ==
    \/ GradFromVector
    \/ RequiresGradients
    \/ Mul
    \/ Invoke

SpecGrad == Init /\ [][NextGrad]_vars

\* the operators and what gradients() finds on their results
NextNode ==
    \/ GradFromVector
    \/ RequiresGradients
    \/ Mul
    \/ Add
    \/ Sub
    \/ Div
    \/ Mm
    \/ Gradients

SpecNode == Init /\ [][NextNode]_vars

-----------------------------------------------------------------------------
(* Properties of the autograd graph *)

\* P holds the elementwise (broadcast) product of G and B in memory mem
IsProductOf(P, G, B, mem) ==
    /\ P.shape = [i \in 1..G.rank |-> Max(G.shape[i], B.shape[i])]
    /\ \A c \in Coords(P.shape) :
          At(mem, P, c) = At(mem, G, BroadcastCoord(c, G, B))
                          * At(mem, B, BroadcastCoord(c, B, G))

IsLeafOrNull(heap, p) == p = NULL \/ heap[p].kind = "accumulate"

\* the call just made, its node and the node's two parents
CalledNode == nodes[lastcall.node]
Parent(i) == CalledNode.backwards[i]

\* operand i of the product C = A * B whose node was called: A is 1, B is 2
Operand(i) ==
    tensors[IF i = 1 THEN origin[lastcall.of].a ELSE origin[lastcall.of].b]

\* the step appends exactly n tensors to the list of node p
Received(p, n) ==
    /\ Len(nodes'[p].tensors) = Len(nodes[p].tensors) + n
    /\ \A i \in 1..Len(nodes[p].tensors) : nodes'[p].tensors[i] = nodes[p].tensors[i]

\* after a call with gradient G: the tensor `back` places before the end of the
\* list of parent i is G times the operand of the other parent
Delivered(i, back) ==
    LET list == nodes[Parent(i)].tensors
    IN  IsProductOf(list[Len(list) - back], tensors[lastcall.g],
                    Operand(3 - i), bufs)

\* the later of the last two tensors of parent i was computed second
InCallOrder(i) ==
    LET list == nodes[Parent(i)].tensors
    IN  list[Len(list) - 1].data < list[Len(list)].data

\* the step is a call of C's MultiplyBackward node whose parents are leaves or null
LeafMultiplyCall ==
    /\ lastcall' # NoCall
    /\ CalledNode'.kind = "multiply"
    /\ origin[lastcall'.of].op = "multiply"
    /\ IsLeafOrNull(nodes, Parent(1)')
    /\ IsLeafOrNull(nodes, Parent(2)')

\* C3 as stated: every call of C's node with G appends exactly one tensor, G*B,
\* to the leaf of A and exactly one tensor, G*A, to the leaf of B; a null
\* parent gets nothing and does not disturb the other.
MultiplyDeliversOneEach ==
    [][LeafMultiplyCall =>
         /\ Parent(1)' # NULL => Received(Parent(1)', 1) /\ Delivered(1, 0)'
         /\ Parent(2)' # NULL => Received(Parent(2)', 1) /\ Delivered(2, 0)']_vars

\* C3 (amended): a call of C's node with G appends G*B to the leaf of A and then
\* G*A to the leaf of B: one tensor each when the two leaves are different
\* nodes, both tensors in that order when A and B share one leaf; a null parent
\* gets nothing, and no other node that existed changes.
MultiplyDeliversProducts ==
    [][LeafMultiplyCall =>
         /\ (Parent(1)' # NULL /\ Parent(2)' # Parent(1)') =>
               Received(Parent(1)', 1) /\ Delivered(1, 0)'
         /\ (Parent(2)' # NULL /\ Parent(2)' # Parent(1)') =>
               Received(Parent(2)', 1) /\ Delivered(2, 0)'
         /\ (Parent(1)' # NULL /\ Parent(2)' = Parent(1)') =>
               /\ Received(Parent(1)', 2)
               /\ Delivered(1, 1)'
               /\ Delivered(2, 0)'
               /\ InCallOrder(1)'
         /\ \A m \in 1..Len(nodes) :
               (m # Parent(1)' /\ m # Parent(2)') => nodes'[m] = nodes[m]]_vars

\* a backward call through C = A * B has just delivered to two different leaves
DeliveredToBothLeaves ==
    /\ lastcall # NoCall
    /\ LET node == nodes[lastcall.node]
           p0 == node.backwards[1]
           p1 == node.backwards[2]
       IN  /\ node.kind = "multiply"
           /\ p0 # NULL /\ p1 # NULL /\ p0 # p1
           /\ nodes[p0].kind = "accumulate" /\ nodes[p1].kind = "accumulate"
           /\ nodes[p0].tensors # <<>> /\ nodes[p1].tensors # <<>>
           /\ node.tensors[1].data # node.tensors[2].data

NonDifferentiable == {"add", "subtract", "divide", "mm"}

\* C4: the results of + - / and mm carry no autograd node (unless
\* requires_gradients() is called on them afterwards), and gradients() on such
\* a result ends in an error, never in a returned tensor.
NoNodeMeansGradientsFails ==
    \A k \in Created :
        origin[k].op \in NonDifferentiable =>
            /\ IsLeafOrNull(nodes, tensors[k].backward)
            /\ (gradres.of = k /\ tensors[k].backward = NULL) =>
                  gradres.status # "returned"

\* the nodes node n forwards to, directly or through other nodes
RECURSIVE Reach(_, _)
Reach(heap, n) ==
    IF n = NULL THEN {}
    ELSE {n} \cup UNION {Reach(heap, heap[n].backwards[i]) :
                            i \in 1..Len(heap[n].backwards)}

\* the nodes the call just made could forward to
ReachOfCall == Reach(nodes, lastcall.node)

\* C9: requires_gradients() always attaches a fresh, empty Accumulate node and
\* alters no node already built; the parents of a node never change; a backward
\* call changes only nodes reachable through the references captured when the
\* called node was built, so a leaf attached to A after C = A * B was built
\* receives nothing from a call through C.
LeavesAreFreshAndCaptured ==
    [][/\ \A m \in 1..Len(nodes) :
             /\ nodes'[m].kind = nodes[m].kind
             /\ nodes'[m].backwards = nodes[m].backwards
             /\ nodes'[m] # nodes[m] =>
                   /\ lastcall' # NoCall
                   /\ m \in ReachOfCall'
       /\ \A a \in Created :
             tensors'[a].backward # tensors[a].backward =>
                 /\ tensors'[a].backward = Len(nodes) + 1
                 /\ nodes' = Append(nodes, AccumulateNode)]_vars

\* requires_gradients(A); C = A * B; requires_gradients(A); a call through C:
\* the gradient is in A's earlier leaf and A's current leaf is empty
GradientWentToEarlierLeaf ==
    \E c \in Created :
        /\ origin[c].op = "multiply"
        /\ lastcall # NoCall
        /\ lastcall.node = tensors[c].backward
        /\ LET captured == nodes[lastcall.node].backwards[1]
               current == tensors[origin[c].a].backward
           IN  /\ captured # NULL
               /\ current # NULL
               /\ current # captured
               /\ current > lastcall.node
               /\ nodes[captured].tensors # <<>>
               /\ nodes[current].tensors = <<>>

-----------------------------------------------------------------------------
(* One kernel launch, its threads scheduled in any order *)

\* thread tid of the launch runs: its reads and writes are logged
ThreadRuns(kernel) ==
    /\ launch # NoLaunch
    /\ launch.kernel = kernel
    /\ \E tid \in pending, garbage \in Garbage :
          LET e == ThreadEffect(launch, tid, bufs, garbage)
          IN  /\ bufs' = ApplyWrites(bufs, e.writes)
              /\ wlog' = wlog \cup {[tid |-> tid, buf |-> e.writes[i].buf,
                                     off |-> e.writes[i].off] : i \in 1..Len(e.writes)}
              /\ rlog' = rlog \cup {[tid |-> tid, buf |-> c.buf, off |-> c.off] :
                                    c \in e.reads}
              /\ pending' = pending \ {tid}
    /\ UNCHANGED <<tensors, origin, nodes, gradres, lastcall, launch>>

AddThread == ThreadRuns("add")
SubtractThread == ThreadRuns("subtract")
MultiplyThread == ThreadRuns("multiply")
DivideThread == ThreadRuns("divide")
NegateThread == ThreadRuns("negate")
ReluThread == ThreadRuns("relu")
ReluDThread == ThreadRuns("relu_d")
MatrixMultiplyThread == ThreadRuns("matrix_multiply")

KernelInputs ==
    {Input(<<2, 2>>, <<1, -2, 3, 4>>),
     Input(<<1, 2>>, <<5, -6>>)}

\* the dense tensor of a shape over buffer `data` and its transposed view
Views(shape, data) ==
    {NewTensor(shape, data), TransposeOf(NewTensor(shape, data), 0, 1)}

\* the operator calls whose launch is observed: the operands lie in buffers 1
\* and 2, the second operand possibly in the buffer of the first
Launched(in1, in2, garbage) ==
    LET mem == <<in1.values, in2.values>>
        first == Views(in1.shape, 1)
        second == first \cup Views(in2.shape, 2)
    IN  {BinaryOp(kernel, t1, t2, mem, garbage) :
            kernel \in BinaryKernels, t1 \in first, t2 \in second}
        \cup {UnaryOp(kernel, t1, mem, garbage) : kernel \in UnaryKernels, t1 \in first}
        \cup UNION {{MmOp(t1, t2, mem, garbage) :
                        t2 \in {t \in second : MmDefined(t1, t)}} : t1 \in first}

\* the kernel has been launched and none of its threads has run
InitKernel ==
    /\ tensors = <<>>
    /\ origin = <<>>
    /\ nodes = <<>>
    /\ gradres = NoGradients
    /\ lastcall = NoCall
    /\ wlog = {}
    /\ rlog = {}
    /\ \E in1, in2 \in KernelInputs, garbage \in Garbage :
       \E r \in Launched(in1, in2, garbage) :
          /\ r.L.kernel = "divide" =>
                \A i \in 1..Len(r.mem[r.L.in2]) : r.mem[r.L.in2][i] # 0
          /\ bufs = r.mem
          /\ launch = r.L
          /\ pending = 0..(NThreads(r.L) - 1)

NextKernel ==
    \/ AddThread
    \/ SubtractThread
    \/ MultiplyThread
    \/ DivideThread
    \/ NegateThread
    \/ ReluThread
    \/ ReluDThread
    \/ MatrixMultiplyThread

SpecKernel == InitKernel /\ [][NextKernel]_vars

-----------------------------------------------------------------------------
(* Properties of a launch *)

\* thread tid lies within the output range of launch L
WithinOutput(L, tid) ==
    IF L.kernel = "matrix_multiply"
    THEN tid % L.gridx < L.height /\ (tid \div L.gridx) % L.gridy < L.width
    ELSE tid < L.n

Ran == (0..(NThreads(launch) - 1)) \ pending

====
